---------------------------- MODULE Spec2Model ----------------------------
(***************************************************************************)
(* A model of json_logging: the framework registry and init               *)
(* (json_logging/__init__.py), the RequestInfo life cycle and the Django   *)
(* middleware (json_logging/framework/django/__init__.py), and the two    *)
(* log formatters.                                                         *)
(*                                                                         *)
(* Three specifications share the variables:                               *)
(*   Spec     registry, init, init_request_instrument, config_root_logger  *)
(*   SpecReq  one Django request through Middleware.__call__, RequestInfo  *)
(*   SpecFmt  one LogRecord formatted twice by JSONLog(Web)Formatter       *)
(***************************************************************************)
EXTENDS Integers, Sequences, FiniteSets, TLC

(***************************************************************************)
(* Bounds of the model.                                                    *)
(***************************************************************************)
MaxCalls == 4
MaxRootHandlers == 1
MaxTicks == 3
MaxFinalize == 2

(***************************************************************************)
(* Python values.  None and the classes are tagged so that values of      *)
(* different Python types compare unequal instead of failing to compare.  *)
(***************************************************************************)
NoneV == [none |-> TRUE]
Str(s) == [str |-> s]
IsNone(v) == v = NoneV

EMPTY_VALUE == "-"

\* Python truthiness of an optional string argument: None and '' are falsy.
Truthy(a) == "str" \in DOMAIN a /\ a.str # <<>>

(***************************************************************************)
(* Strings that the code transforms are sequences of characters.          *)
(***************************************************************************)
LowerChar(c) ==
    CASE c = "D" -> "d"
      [] c = "J" -> "j"
      [] c = "F" -> "f"
      [] c = "L" -> "l"
      [] OTHER -> c

\* str.lower()
Lower(s) == [i \in DOMAIN s |-> LowerChar(s[i])]

django == <<"d", "j", "a", "n", "g", "o">>
flask == <<"f", "l", "a", "s", "k">>
sanic == <<"s", "a", "n", "i", "c">>
quart == <<"q", "u", "a", "r", "t">>
connexion == <<"c", "o", "n", "n", "e", "x", "i", "o", "n">>

VARIABLES
    ENABLE_JSON_LOGGING,
    django_present,
    framework_support_map,
    current_framework,
    request_util,
    warnings,
    default_formatter,
    root_handlers,
    request_logger,
    middleware_depth,
    last,
    calls,
    init_calls,
    after_first_init,
    selected,
    latest_reg,
    now,
    ticks,
    pc,
    request_info,
    response,
    access_log,
    mw_result,
    finalize_calls,
    first_finalize,
    finalized_at,
    fmt,
    record,
    ambient,
    next_id,
    out1,
    out2,
    t1,
    t2

regVars == <<ENABLE_JSON_LOGGING, django_present, framework_support_map,
             current_framework, request_util, warnings, default_formatter,
             root_handlers, request_logger, middleware_depth, calls,
             init_calls, after_first_init, selected, latest_reg>>
clockVars == <<now, ticks>>
reqVars == <<pc, request_info, response, access_log, mw_result,
             finalize_calls, first_finalize, finalized_at>>
fmtVars == <<fmt, record, ambient, next_id, out1, out2, t1, t2>>
vars == <<regVars, last, clockVars, reqVars, fmtVars>>


(***************************************************************************)
(* Part 1.  The framework registry and the initialisation entry points.    *)
(***************************************************************************)

\* The class relation the registry checks (json_logging.framework_base and
\* util.validate_subclass); a class is a subclass of itself.
IsSubclass(cls, base) ==
    \/ cls = base
    \/ /\ base = "RequestAdapter"
       /\ cls \in {"DjangoRequestAdapter", "FlaskRequestAdapter",
                   "SanicRequestAdapter", "QuartRequestAdapter",
                   "ConnexionRequestAdapter", "OverrideRequestAdapter",
                   "SecondRequestAdapter"}
    \/ /\ base = "ResponseAdapter"
       /\ cls \in {"DjangoResponseAdapter", "FlaskResponseAdapter",
                   "SanicResponseAdapter", "QuartResponseAdapter",
                   "ConnexionResponseAdapter", "OverrideResponseAdapter",
                   "SecondResponseAdapter"}
    \/ /\ base = "AppRequestInstrumentationConfigurator"
       /\ cls \in {"DjangoAppRequestInstrumentationConfigurator",
                   "FlaskAppRequestInstrumentationConfigurator",
                   "SanicAppRequestInstrumentationConfigurator",
                   "QuartAppRequestInstrumentationConfigurator",
                   "ConnexionAppRequestInstrumentationConfigurator",
                   "OverrideInstrumentationConfigurator",
                   "SecondInstrumentationConfigurator"}
    \/ /\ base = "FrameworkConfigurator"
       /\ cls \in {"SanicAppConfigurator"}
    \/ /\ base = "logging.Formatter"
       /\ cls \in {"JSONLogFormatter", "JSONLogWebFormatter",
                   "JSONRequestLogFormatter", "CustomFormatter"}

\* The dict stored for one framework name.
Binding(ac, aric, rac, rsc) ==
    [app_configurator |-> ac,
     app_request_instrumentation_configurator |-> aric,
     request_adapter_class |-> rac,
     response_adapter_class |-> rsc]

FlaskBinding ==
    Binding("None", "FlaskAppRequestInstrumentationConfigurator",
            "FlaskRequestAdapter", "FlaskResponseAdapter")
DjangoBinding ==
    Binding("None", "DjangoAppRequestInstrumentationConfigurator",
            "DjangoRequestAdapter", "DjangoResponseAdapter")
SanicBinding ==
    Binding("SanicAppConfigurator", "SanicAppRequestInstrumentationConfigurator",
            "SanicRequestAdapter", "SanicResponseAdapter")
QuartBinding ==
    Binding("None", "QuartAppRequestInstrumentationConfigurator",
            "QuartRequestAdapter", "QuartResponseAdapter")
ConnexionBinding ==
    Binding("None", "ConnexionAppRequestInstrumentationConfigurator",
            "ConnexionRequestAdapter", "ConnexionResponseAdapter")

\* _framework_support_map once the module is imported: the five
\* register_framework_support calls at the end of the file.
ImportedFrameworks ==
    (flask :> FlaskBinding) @@ (django :> DjangoBinding)
    @@ (sanic :> SanicBinding) @@ (quart :> QuartBinding)
    @@ (connexion :> ConnexionBinding)

\* util.RequestUtil(request_adapter_class=..., response_adapter_class=...)
RequestUtil(rac, rsc) == [request_adapter |-> rac, response_adapter |-> rsc]

\* _current_framework == '-' : a dict or None never equals a string.
EqualsEmptyValue(v) == "str" \in DOMAIN v /\ v.str = EMPTY_VALUE

\* ---- inputs of the calls ------------------------------------------------
OverrideBinding ==
    Binding("None", "OverrideInstrumentationConfigurator",
            "OverrideRequestAdapter", "OverrideResponseAdapter")
SecondBinding ==
    Binding("SanicAppConfigurator", "SecondInstrumentationConfigurator",
            "SecondRequestAdapter", "SecondResponseAdapter")
\* a request adapter class that does not derive from RequestAdapter
BadBinding ==
    Binding("None", "OverrideInstrumentationConfigurator",
            "object", "OverrideResponseAdapter")

RegisterNames ==
    {NoneV, Str(<<>>), Str(django), Str(<<"D", "j", "a", "n", "g", "o">>),
     Str(<<"D", "J", "a", "n", "g", "o">>), Str(<<"x">>)}
RegisterBindings == {OverrideBinding, SecondBinding, BadBinding}
InitNames ==
    {NoneV, Str(<<>>), Str(django), Str(<<"D", "J", "a", "n", "g", "o">>),
     Str(<<"x">>)}
CustomFormatters == {"None", "CustomFormatter", "object"}
Apps == {"BaseHandler", "object"}

\* ---- register_framework_support -----------------------------------------
\* the checks before the name is stored: "ok" or the exception raised
RegisterChecks(name, b) ==
    IF ~Truthy(name) THEN "RuntimeError"
    ELSE IF ~IsSubclass(b.request_adapter_class, "RequestAdapter")
        THEN "RuntimeError"
    ELSE IF ~IsSubclass(b.response_adapter_class, "ResponseAdapter")
        THEN "RuntimeError"
    ELSE IF ~IsSubclass(b.app_request_instrumentation_configurator,
                        "AppRequestInstrumentationConfigurator")
        THEN "RuntimeError"
    ELSE IF b.app_configurator # "None"
            /\ ~IsSubclass(b.app_configurator, "FrameworkConfigurator")
        THEN "RuntimeError"
    ELSE "ok"

\* a registry that keeps the first registration of a name
StoreBindingKeepFirst(map, key, b) ==
    IF key \in DOMAIN map THEN map ELSE (key :> b) @@ map

\* _framework_support_map[name] = {...}
StoreBinding(map, key, b) == (key :> b) @@ map

register_framework_support(name, b) ==
    /\ calls < MaxCalls
    /\ calls' = calls + 1
    /\ LET exc == RegisterChecks(name, b)
           key == Lower(name.str)
           warn == key \in DOMAIN framework_support_map
       IN  IF exc # "ok"
           THEN /\ UNCHANGED <<framework_support_map, warnings, latest_reg>>
                /\ last' = [op |-> "register", result |-> exc, name |-> name,
                            binding |-> b, warned |-> FALSE,
                            was_registered |-> FALSE]
           ELSE /\ warnings' = IF warn THEN warnings + 1 ELSE warnings
                /\ framework_support_map' =
                       StoreBinding(framework_support_map, key, b)
                /\ latest_reg' = (Lower(name.str) :> b) @@ latest_reg
                /\ last' = [op |-> "register", result |-> "ok", name |-> name,
                            binding |-> b, warned |-> warn,
                            was_registered |->
                                Lower(name.str) \in DOMAIN latest_reg]
    /\ UNCHANGED <<ENABLE_JSON_LOGGING, django_present, current_framework,
                   request_util, default_formatter, root_handlers,
                   request_logger, middleware_depth, init_calls,
                   after_first_init, selected>>
    /\ UNCHANGED <<clockVars, reqVars, fmtVars>>

\* ---- util.update_formatter_for_loggers, for one logger's handlers --------
UpdateFormatter(handlers, formatter) ==
    [i \in DOMAIN handlers |->
        IF IsSubclass(handlers[i].formatter, formatter)
        THEN handlers[i]
        ELSE [handlers[i] EXCEPT !.formatter = formatter]]

\* ---- init -----------------------------------------------------------------
\* if _current_framework is not None: raise
InitGuard(cf) == ~IsNone(cf)

\* what init(framework_name, custom_formatter) leaves behind
InitOutcome(framework_name, custom_formatter) ==
    LET kept == [exc |-> "ok", current_framework |-> current_framework,
                 request_util |-> request_util, formatter |-> "None"]
    IN  IF InitGuard(current_framework)
        THEN [kept EXCEPT !.exc = "RuntimeError"]
        ELSE IF Truthy(framework_name)
        THEN LET n == Lower(framework_name.str)
             IN  IF n \notin DOMAIN framework_support_map
                 THEN [kept EXCEPT !.exc = "RuntimeError"]
                 ELSE LET b == framework_support_map[n]
                      IN  [exc |-> "ok",
                           current_framework |-> b,
                           request_util |->
                               RequestUtil(b.request_adapter_class,
                                           b.response_adapter_class),
                           formatter |-> "JSONLogWebFormatter"]
        ELSE IF custom_formatter # "None"
        THEN IF ~IsSubclass(custom_formatter, "logging.Formatter")
             THEN [kept EXCEPT !.exc = "ValueError"]
             ELSE [kept EXCEPT !.formatter = custom_formatter]
        ELSE [kept EXCEPT !.formatter = "JSONLogFormatter"]

init(framework_name, custom_formatter) ==
    /\ calls < MaxCalls
    /\ calls' = calls + 1
    /\ LET r == InitOutcome(framework_name, custom_formatter)
       IN  /\ current_framework' = r.current_framework
           /\ request_util' = r.request_util
           /\ default_formatter' =
                  IF r.exc = "ok" /\ ENABLE_JSON_LOGGING
                  THEN r.formatter ELSE default_formatter
           /\ request_logger' =
                  IF r.exc = "ok" /\ request_logger.set
                  THEN [request_logger EXCEPT
                           !.handlers = UpdateFormatter(@, r.formatter)]
                  ELSE request_logger
           /\ last' = [op |-> "init", result |-> r.exc,
                       name |-> framework_name]
           /\ selected' = (selected \/ (r.exc = "ok" /\ Truthy(framework_name)))
           /\ after_first_init' =
                  IF init_calls = 0
                  THEN [cf |-> r.current_framework, ru |-> r.request_util]
                  ELSE after_first_init
    /\ init_calls' = init_calls + 1
    /\ UNCHANGED <<ENABLE_JSON_LOGGING, django_present, framework_support_map,
                   warnings, root_handlers, middleware_depth, latest_reg>>
    /\ UNCHANGED <<clockVars, reqVars, fmtVars>>


\* ---- DjangoAppRequestInstrumentationConfigurator.config ------------------
\* The only configurator whose body is part of the sources; the model gives
\* every registered configurator this behaviour.  handlers: the request
\* logger's handlers before the call; id: the identity of the StreamHandler
\* the call creates.
config(app, handlers, id) ==
    IF ~django_present THEN [exc |-> "RuntimeError", handlers |-> handlers]
    ELSE IF ~IsSubclass(app, "BaseHandler")
    THEN [exc |-> "RuntimeError", handlers |-> handlers]
    ELSE [exc |-> "ok",
          handlers |-> Append(handlers, [id |-> id, formatter |-> "None"])]

\* handler.setFormatter(JSONRequestLogFormatter()) for every handler
SetFormatterAll(handlers, formatter) ==
    [i \in DOMAIN handlers |-> [handlers[i] EXCEPT !.formatter = formatter]]

\* ---- init_request_instrument ---------------------------------------------
\* a guard that forgets the None case
NoFrameworkOnlySentinel(cf) == EqualsEmptyValue(cf)

\* if _current_framework is None or _current_framework == '-'
NoFramework(cf) == IsNone(cf) \/ EqualsEmptyValue(cf)

init_request_instrument(app) ==
    /\ calls < MaxCalls
    /\ calls' = calls + 1
    /\ IF NoFramework(current_framework)
       THEN /\ last' = [op |-> "init_request_instrument",
                        result |-> "RuntimeError"]
            /\ UNCHANGED <<request_logger, middleware_depth>>
       ELSE IF IsNone(current_framework)
       THEN \* None['app_request_instrumentation_configurator']
            /\ last' = [op |-> "init_request_instrument",
                        result |-> "TypeError"]
            /\ UNCHANGED <<request_logger, middleware_depth>>
       ELSE LET c == config(app, request_logger.handlers, calls + 1)
            IN  IF c.exc # "ok"
                THEN /\ last' = [op |-> "init_request_instrument",
                                 result |-> c.exc]
                     /\ UNCHANGED <<request_logger, middleware_depth>>
                ELSE /\ last' = [op |-> "init_request_instrument",
                                 result |-> "ok"]
                     /\ request_logger' =
                            [set |-> TRUE,
                             handlers |->
                                 SetFormatterAll(c.handlers,
                                                 "JSONRequestLogFormatter")]
                     /\ middleware_depth' = middleware_depth + 1
    /\ UNCHANGED <<ENABLE_JSON_LOGGING, django_present, framework_support_map,
                   current_framework, request_util, warnings,
                   default_formatter, root_handlers, init_calls,
                   after_first_init, selected, latest_reg>>
    /\ UNCHANGED <<clockVars, reqVars, fmtVars>>

\* ---- config_root_logger ----------------------------------------------------
\* the sequence without its i-th element (1-based)
RemoveAt(s, i) == [j \in 1..(Len(s) - 1) |-> IF j < i THEN s[j] ELSE s[j + 1]]

\* for handler in request_logger.handlers: request_logger.removeHandler(handler)
\* The list is mutated while it is iterated: the iterator's index i (0-based)
\* advances over the shortened list.
RECURSIVE RemoveWhileIterating(_, _)
RemoveWhileIterating(handlers, i) ==
    IF i >= Len(handlers) THEN handlers
    ELSE RemoveWhileIterating(RemoveAt(handlers, i + 1), i + 1)

\* if _current_framework is not None or _current_framework != '-'
UseWebFormatter(cf) == ~IsNone(cf) \/ ~EqualsEmptyValue(cf)

config_root_logger ==
    /\ calls < MaxCalls
    /\ calls' = calls + 1
    /\ IF ~ENABLE_JSON_LOGGING
       THEN /\ last' = [op |-> "config_root_logger", result |-> "ok"]
            /\ UNCHANGED <<root_handlers, request_logger>>
       ELSE IF Len(root_handlers) = 0
       THEN \* _logger.error("No logging handlers found for root logger ...")
            /\ last' = [op |-> "config_root_logger", result |-> "ok"]
            /\ UNCHANGED <<root_handlers, request_logger>>
       ELSE /\ root_handlers' =
                   UpdateFormatter(root_handlers,
                                   IF UseWebFormatter(current_framework)
                                   THEN "JSONLogWebFormatter"
                                   ELSE "JSONLogFormatter")
            /\ IF IsNone(current_framework)
               THEN \* None['app_request_instrumentation_configurator']
                    /\ last' = [op |-> "config_root_logger",
                                result |-> "TypeError"]
                    /\ UNCHANGED request_logger
               ELSE /\ last' = [op |-> "config_root_logger", result |-> "ok"]
                    /\ request_logger' =
                           IF request_logger.set
                           THEN [request_logger EXCEPT !.handlers =
                                    RemoveWhileIterating(@, 0)]
                           ELSE request_logger
    /\ UNCHANGED <<ENABLE_JSON_LOGGING, django_present, framework_support_map,
                   current_framework, request_util, warnings,
                   default_formatter, middleware_depth, init_calls,
                   after_first_init, selected, latest_reg>>
    /\ UNCHANGED <<clockVars, reqVars, fmtVars>>

\* ---- the idle values of the other parts -----------------------------------
ClockIdle == now = 0 /\ ticks = 0
ReqIdle ==
    /\ pc = "idle"
    /\ request_info = NoneV
    /\ response = NoneV
    /\ access_log = <<>>
    /\ mw_result = NoneV
    /\ finalize_calls = 0
    /\ first_finalize = NoneV
    /\ finalized_at = NoneV
FmtIdle ==
    /\ fmt = "None"
    /\ record = NoneV
    /\ ambient = NoneV
    /\ next_id = 0
    /\ out1 = NoneV
    /\ out2 = NoneV
    /\ t1 = 0
    /\ t2 = 0

\* The state once json_logging is imported, with 0..MaxRootHandlers handlers
\* on the root logger (logging.basicConfig() called or not).
RegInit ==
    /\ ENABLE_JSON_LOGGING \in BOOLEAN
    /\ django_present \in BOOLEAN
    /\ framework_support_map = ImportedFrameworks
    /\ current_framework = NoneV
    /\ request_util = NoneV
    /\ warnings = 0
    /\ default_formatter = "None"
    /\ \E n \in 0..MaxRootHandlers :
           root_handlers = [i \in 1..n |-> [id |-> i, formatter |-> "None"]]
    /\ request_logger = [set |-> FALSE, handlers |-> <<>>]
    /\ middleware_depth = 0
    /\ last = [op |-> "import", result |-> "ok"]
    /\ calls = 0
    /\ init_calls = 0
    /\ after_first_init = [cf |-> NoneV, ru |-> NoneV]
    /\ selected = FALSE
    /\ latest_reg = ImportedFrameworks

Init == RegInit /\ ClockIdle /\ ReqIdle /\ FmtIdle

Next ==
    \/ \E name \in RegisterNames, b \in RegisterBindings :
           register_framework_support(name, b)
    \/ \E name \in InitNames, cf \in CustomFormatters : init(name, cf)
    \/ \E app \in Apps : init_request_instrument(app)
    \/ config_root_logger

Spec == Init /\ [][Next]_vars


(***************************************************************************)
(* Part 2.  RequestInfo, DjangoResponseAdapter and the Django middleware.  *)
(***************************************************************************)
IntV(n) == [int |-> n]

\* The clock is datetime.utcnow() in microseconds since the first reading.
\* Elapsed times are durations: the clock does not run backwards.
ClockSteps == {999, 50000, 1000000}

Tick(step) ==
    /\ ticks < MaxTicks
    /\ ticks' = ticks + 1
    /\ now' = now + step

\* util.iso_time_format(utcnow): ISO-8601 UTC text of a clock reading, kept
\* as its parts (whole seconds, milliseconds).
iso_time_format(t) == [iso_s |-> t \div 1000000, iso_ms |-> (t % 1000000) \div 1000]

\* ---- the responses a Django handler returns --------------------------------
\* status_code; the Content-Length and Content-Type headers ("None": the
\* header is not set); tell: the stream position, or the exception tell()
\* raises (a streaming response cannot tell its position).
Responses ==
    {[status_code |-> 200, content_length |-> "1234",
      content_type |-> "application/json", tell |-> IntV(1234)],
     [status_code |-> 200, content_length |-> "None",
      content_type |-> "text/html", tell |-> IntV(5)],
     [status_code |-> 200, content_length |-> "None",
      content_type |-> "text/html", tell |-> [raises |-> "OSError"]],
     [status_code |-> 304, content_length |-> "None",
      content_type |-> "None", tell |-> IntV(0)]}

\* ---- DjangoResponseAdapter -------------------------------------------------
\* Each operation yields [exc, value]: exc is "ok" or the exception raised.
get_status_code(resp) == [exc |-> "ok", value |-> resp.status_code]

get_response_size(resp) ==
    IF resp.content_length # "None"
    THEN [exc |-> "ok", value |-> Str(resp.content_length)]
    ELSE IF "int" \in DOMAIN resp.tell
    THEN [exc |-> "ok", value |-> resp.tell]
    ELSE IF resp.tell.raises = "OSError"
    THEN [exc |-> "ok", value |-> Str(EMPTY_VALUE)]
    ELSE [exc |-> resp.tell.raises, value |-> NoneV]

\* response['Content-Type']: a missing header is a KeyError
get_content_type(resp) ==
    IF resp.content_type # "None"
    THEN [exc |-> "ok", value |-> Str(resp.content_type)]
    ELSE [exc |-> "KeyError", value |-> NoneV]

\* ---- RequestInfo -----------------------------------------------------------
\* attrs: the attributes set so far.  A field not in attrs holds a filler.
NewRequestInfo(request, t) ==
    [attrs |-> {"request_start", "request", "request_received_at"},
     request_start |-> t,
     request |-> request,
     request_received_at |-> iso_time_format(t),
     response_time_ms |-> 0,
     response_status |-> 0,
     response_size_b |-> NoneV,
     response_content_type |-> NoneV,
     response_sent_at |-> NoneV]

\* timedelta.microseconds: the sub-second component, 0..999999
Microseconds(d) == d % 1000000

\* int(timedelta.total_seconds()): truncation toward zero
IntTotalSeconds(d) ==
    IF d >= 0 THEN d \div 1000000 ELSE -((-d) \div 1000000)

\* a conversion that counts the whole seconds in both terms
ResponseTimeMsDoubleCount(d) == (d \div 1000) + (Microseconds(d) \div 1000)

\* int(time_delta.total_seconds()) * 1000 + int(time_delta.microseconds / 1000)
ResponseTimeMs(d) == IntTotalSeconds(d) * 1000 + (Microseconds(d) \div 1000)

\* RequestInfo.update_response_status(response) called at clock reading t:
\* [exc, info].  An exception leaves the attributes assigned before it.
UpdateResponseStatus(info, resp, t) ==
    IF IsNone(request_util)
    THEN [exc |-> "AttributeError", info |-> info]
    ELSE
    LET i1 == [info EXCEPT
                  !.attrs = @ \cup {"response_time_ms", "response_status"},
                  !.response_time_ms = ResponseTimeMs(t - info.request_start),
                  !.response_status = get_status_code(resp).value]
        size == get_response_size(resp)
        i2 == [i1 EXCEPT !.attrs = @ \cup {"response_size_b"},
                         !.response_size_b = size.value]
        ctype == get_content_type(resp)
        i3 == [i2 EXCEPT
                  !.attrs = @ \cup {"response_content_type",
                                    "response_sent_at"},
                  !.response_content_type = ctype.value,
                  !.response_sent_at = iso_time_format(t)]
    IN  IF size.exc # "ok" THEN [exc |-> size.exc, info |-> i1]
        ELSE IF ctype.exc # "ok" THEN [exc |-> ctype.exc, info |-> i2]
        ELSE [exc |-> "ok", info |-> i3]

\* ghost bookkeeping of one update_response_status call
Finalized(r) ==
    /\ finalize_calls' = finalize_calls + 1
    /\ finalized_at' = IntV(now)
    /\ first_finalize' = IF finalize_calls = 0 THEN r.info ELSE first_finalize

\* a direct call of request.request_info.update_response_status(response),
\* by the inner handler or by code that runs after the middleware
update_response_status(resp) ==
    /\ pc \in {"handler", "done"}
    /\ finalize_calls < MaxFinalize
    /\ LET r == UpdateResponseStatus(request_info, resp, now)
       IN  /\ request_info' = r.info
           /\ last' = [op |-> "update_response_status", result |-> r.exc,
                       response |-> resp]
           /\ Finalized(r)
    /\ UNCHANGED <<pc, response, access_log, mw_result>>
    /\ UNCHANGED <<regVars, clockVars, fmtVars>>

\* ---- Middleware ------------------------------------------------------------
\* the attributes Middleware.__init__ sets on the instance
MiddlewareAttributes == {"get_response"}

\* Middleware.__call__ up to the call of the inner handler
MiddlewareEnter ==
    /\ pc = "idle"
    /\ pc' = "handler"
    /\ request_info' = NewRequestInfo("request", now)
    /\ last' = [op |-> "RequestInfo", result |-> "ok"]
    /\ UNCHANGED <<response, access_log, mw_result, finalize_calls,
                   first_finalize, finalized_at>>
    /\ UNCHANGED <<regVars, clockVars, fmtVars>>

\* self.get_response(request) returns resp, and Middleware.__call__ runs on
\* to its end
MiddlewareReturn(resp) ==
    /\ pc = "handler"
    /\ pc' = "done"
    /\ response' = resp
    /\ LET r == UpdateResponseStatus(request_info, resp, now)
       IN  /\ request_info' = r.info
           /\ Finalized(r)
           /\ IF r.exc # "ok"
              THEN /\ mw_result' = [raises |-> r.exc]
                   /\ UNCHANGED access_log
              ELSE IF "request_logger" \notin MiddlewareAttributes
              THEN \* self.request_logger: the instance has no such attribute
                   /\ mw_result' = [raises |-> "AttributeError"]
                   /\ UNCHANGED access_log
              ELSE /\ access_log' =
                          Append(access_log, [request_info |-> r.info])
                   /\ mw_result' = [returns |-> resp]
           /\ last' = [op |-> "Middleware.__call__", result |-> r.exc,
                       response |-> resp]
    /\ UNCHANGED <<regVars, clockVars, fmtVars>>

\* self.get_response(request) raises: Middleware.__call__ is left at once
MiddlewareAbort ==
    /\ pc = "handler"
    /\ pc' = "done"
    /\ mw_result' = [raises |-> "HandlerError"]
    /\ last' = [op |-> "Middleware.__call__", result |-> "HandlerError",
                response |-> NoneV]
    /\ UNCHANGED <<request_info, response, access_log, finalize_calls,
                   first_finalize, finalized_at>>
    /\ UNCHANGED <<regVars, clockVars, fmtVars>>

ReqTick ==
    \E step \in ClockSteps :
        /\ Tick(step)
        /\ UNCHANGED <<regVars, last, reqVars, fmtVars>>

\* The state after init('django') and init_request_instrument(app) on a
\* Django handler.
DjangoInstrumented ==
    /\ ENABLE_JSON_LOGGING \in BOOLEAN
    /\ django_present = TRUE
    /\ framework_support_map = ImportedFrameworks
    /\ current_framework = DjangoBinding
    /\ request_util = RequestUtil("DjangoRequestAdapter",
                                  "DjangoResponseAdapter")
    /\ warnings = 0
    /\ default_formatter =
           IF ENABLE_JSON_LOGGING THEN "JSONLogWebFormatter" ELSE "None"
    /\ root_handlers = <<>>
    /\ request_logger =
           [set |-> TRUE,
            handlers |-> <<[id |-> 2,
                            formatter |-> "JSONRequestLogFormatter"]>>]
    /\ middleware_depth = 1
    /\ calls = 2
    /\ init_calls = 1
    /\ after_first_init = [cf |-> current_framework, ru |-> request_util]
    /\ selected = TRUE
    /\ latest_reg = ImportedFrameworks
    /\ last = [op |-> "init_request_instrument", result |-> "ok"]

ReqInit == DjangoInstrumented /\ ClockIdle /\ ReqIdle /\ FmtIdle

ReqNext ==
    \/ ReqTick
    \/ MiddlewareEnter
    \/ \E resp \in Responses : MiddlewareReturn(resp)
    \/ MiddlewareAbort
    \/ \E resp \in Responses : update_response_status(resp)

SpecReq == ReqInit /\ [][ReqNext]_vars

(***************************************************************************)
(* Part 3.  JSONLogFormatter and JSONLogWebFormatter.                      *)
(***************************************************************************)
COMPONENT_INSTANCE_INDEX == 0
CREATE_CORRELATION_ID_IF_NOT_EXISTS == TRUE
CORRELATION_ID_HEADERS == <<"X-Correlation-ID", "X-Request-ID">>

\* ---- Python dicts: key/value pairs in insertion order ----------------------
DictKeys(d) == {d[i][1] : i \in DOMAIN d}
DictGet(d, k) == (CHOOSE i \in DOMAIN d : d[i][1] = k)
DictValue(d, k) == d[DictGet(d, k)][2]

\* d[k] = v: an existing key keeps its place
DictSet(d, k, v) ==
    IF k \in DictKeys(d)
    THEN [i \in DOMAIN d |-> IF d[i][1] = k THEN <<k, v>> ELSE d[i]]
    ELSE Append(d, <<k, v>>)

\* d.update(e)
RECURSIVE DictUpdate(_, _)
DictUpdate(d, e) ==
    IF e = <<>> THEN d
    ELSE DictUpdate(DictSet(d, Head(e)[1], Head(e)[2]), Tail(e))

\* JSON_SERIALIZER = json.dumps: the document is the members in the dict's
\* order, each key followed by its value.
JSON_SERIALIZER(d) ==
    [i \in 1..(2 * Len(d)) |->
        IF i % 2 = 1 THEN Str(d[(i + 1) \div 2][1]) ELSE d[i \div 2][2]]

\* reading a document back: its keys, and the value of a key
JsonKeys(doc) == {doc[i].str : i \in {j \in DOMAIN doc : j % 2 = 1}}
JsonGet(doc, k) ==
    doc[(CHOOSE i \in DOMAIN doc : i % 2 = 1 /\ doc[i] = Str(k)) + 1]

\* util.epoch_nano_second(utcnow): the nanoseconds of a clock reading, kept as
\* whole seconds and the nanoseconds within the second (the number is
\* ns_s * 10^9 + ns_rem)
epoch_nano_second(t) ==
    [ns_s |-> t \div 1000000, ns_rem |-> (t % 1000000) * 1000]

\* ---- the LogRecords formatted ----------------------------------------------
\* has_props: the record has a props attribute (logger.info(..., extra=
\* {'props': {...}})); exc_info, exc_text: None, or the exception, or the
\* cached text.
PropsChoices ==
    {<<>>,
     <<<<"custom", Str("p1")>>>>,
     <<<<"msg", Str("p1")>>, <<"custom", Str("p2")>>>>,
     <<<<"written_at", Str("p1")>>, <<"type", Str("p2")>>>>,
     <<<<"correlation_id", Str("p1")>>>>,
     <<<<"exc_info", Str("p1")>>, <<"filename", Str("p2")>>>>}
ExcChoices ==
    {[exc_info |-> NoneV, exc_text |-> NoneV],
     [exc_info |-> [exc |-> "ValueError"], exc_text |-> NoneV],
     [exc_info |-> NoneV, exc_text |-> Str("cached traceback")],
     [exc_info |-> NoneV, exc_text |-> Str("")]}
LogRecord(has_props, props, e) ==
    [name |-> "app", threadName |-> "MainThread", levelname |-> "INFO",
     lineno |-> 42, module |-> "views", msg |-> "hello",
     filename |-> "views.py", has_props |-> has_props, props |-> props,
     exc_info |-> e.exc_info, exc_text |-> e.exc_text]
Records ==
    {LogRecord(FALSE, <<>>, e) : e \in ExcChoices}
    \cup {LogRecord(TRUE, p, e) : p \in PropsChoices, e \in ExcChoices}

\* Python truthiness of exc_info / exc_text: None and '' are falsy
TruthyValue(v) == ~IsNone(v) /\ v # Str("")

\* ---- the ambient request and the correlation id ----------------------------
\* The request the framework holds for the running thread: None outside a
\* request, else its headers (Str("") : the header is not set).
AmbientChoices ==
    {NoneV,
     [headers |-> [h \in {"X-Correlation-ID", "X-Request-ID"} |-> Str("")]],
     [headers |-> [h \in {"X-Correlation-ID", "X-Request-ID"} |->
                      IF h = "X-Request-ID" THEN Str("r1") ELSE Str("")]],
     [headers |-> [h \in {"X-Correlation-ID", "X-Request-ID"} |->
                      IF h = "X-Request-ID" THEN Str("r1") ELSE Str("c1")]]}

\* DjangoRequestAdapter.support_global_request_object() is False; the
\* adapters of the frameworks with a global request object answer True.
support_global_request_object(adapter) == adapter # "DjangoRequestAdapter"

\* the first present, non-empty header of CORRELATION_ID_HEADERS
RECURSIVE FirstHeader(_, _)
FirstHeader(headers, names) ==
    IF names = <<>> THEN NoneV
    ELSE IF headers[Head(names)] # Str("") THEN headers[Head(names)]
    ELSE FirstHeader(headers, Tail(names))

\* _request_util.get_correlation_id() without a request argument:
\* [exc, value, ambient, next_id]
get_correlation_id ==
    LET same(exc, v) == [exc |-> exc, value |-> v, ambient |-> ambient,
                         next_id |-> next_id]
    IN  IF IsNone(request_util) THEN same("AttributeError", NoneV)
        ELSE IF ~support_global_request_object(request_util.request_adapter)
        THEN same("ValueError", NoneV)
        ELSE IF IsNone(ambient) THEN same("ok", Str(EMPTY_VALUE))
        ELSE LET found == FirstHeader(ambient.headers, CORRELATION_ID_HEADERS)
             IN  IF ~IsNone(found) THEN same("ok", found)
                 ELSE IF ~CREATE_CORRELATION_ID_IF_NOT_EXISTS
                 THEN same("ok", Str(EMPTY_VALUE))
                 ELSE [exc |-> "ok",
                       value |-> [uuid |-> next_id + 1],
                       ambient |-> [ambient EXCEPT
                           !.headers["X-Correlation-ID"] =
                               [uuid |-> next_id + 1]],
                       next_id |-> next_id + 1]

\* ---- the formatters ----------------------------------------------------------
\* a formatter that reads the clock once, when the module is loaded
WrittenFieldsFrozen(t) ==
    <<<<"written_at", iso_time_format(0)>>,
      <<"written_ts", epoch_nano_second(0)>>>>

\* utcnow = datetime.utcnow(); "written_at": ..., "written_ts": ...
WrittenFields(t) ==
    <<<<"written_at", iso_time_format(t)>>,
      <<"written_ts", epoch_nano_second(t)>>>>

ComponentFields ==
    <<<<"component_id", Str(EMPTY_VALUE)>>,
      <<"component_name", Str(EMPTY_VALUE)>>,
      <<"component_instance", IntV(COMPONENT_INSTANCE_INDEX)>>>>

\* the dict literal of JSONLogFormatter.format
PlainFields(rec, t) ==
    <<<<"type", Str("log")>>>> \o WrittenFields(t) \o ComponentFields \o
    <<<<"logger", Str(rec.name)>>,
      <<"thread", Str(rec.threadName)>>,
      <<"level", Str(rec.levelname)>>,
      <<"line_no", IntV(rec.lineno)>>,
      <<"module", Str(rec.module)>>,
      <<"msg", Str(rec.msg)>>>>

\* the dict literal of JSONLogWebFormatter.format
WebFields(rec, t, cid) ==
    <<<<"type", Str("log")>>>> \o WrittenFields(t) \o ComponentFields \o
    <<<<"logger", Str(rec.name)>>,
      <<"thread", Str(rec.threadName)>>,
      <<"level", Str(rec.levelname)>>,
      <<"module", Str(rec.module)>>,
      <<"line_no", IntV(rec.lineno)>>,
      <<"correlation_id", cid>>,
      <<"msg", Str(rec.msg)>>>>

\* ''.join(traceback.format_exception(*exc_info)) if exc_info else ''
format_exception(exc_info) ==
    IF TruthyValue(exc_info) THEN [traceback |-> exc_info.exc] ELSE Str("")

get_exc_fields(rec) ==
    <<<<"exc_info", IF TruthyValue(rec.exc_info)
                    THEN format_exception(rec.exc_info)
                    ELSE rec.exc_text>>,
      <<"filename", Str(rec.filename)>>>>

\* a merge in which the formatter's own fields win over the props
MergePropsKeepFixed(obj, rec) ==
    IF rec.has_props THEN DictUpdate(rec.props, obj) ELSE obj

\* if hasattr(record, 'props'): json_log_object.update(record.props)
MergeProps(obj, rec) ==
    IF rec.has_props THEN DictUpdate(obj, rec.props) ELSE obj

\* if record.exc_info or record.exc_text: update(self.get_exc_fields(record))
MergeExcFields(obj, rec) ==
    IF TruthyValue(rec.exc_info) \/ TruthyValue(rec.exc_text)
    THEN DictUpdate(obj, get_exc_fields(rec))
    ELSE obj

\* formatter.format(record) at clock reading t: [out, ambient, next_id]
Format(formatter, rec, t) ==
    IF formatter = "JSONLogFormatter"
    THEN [out |-> [doc |-> JSON_SERIALIZER(
                      MergeExcFields(MergeProps(PlainFields(rec, t), rec),
                                     rec))],
          ambient |-> ambient, next_id |-> next_id]
    ELSE LET c == get_correlation_id
         IN  IF c.exc # "ok"
             THEN [out |-> [raises |-> c.exc],
                   ambient |-> c.ambient, next_id |-> c.next_id]
             ELSE [out |-> [doc |-> JSON_SERIALIZER(
                              MergeExcFields(
                                  MergeProps(WebFields(rec, t, c.value), rec),
                                  rec))],
                   ambient |-> c.ambient, next_id |-> c.next_id]

\* the first handler formats the record
format_first ==
    /\ IsNone(out1)
    /\ LET r == Format(fmt, record, now)
       IN  /\ out1' = r.out
           /\ ambient' = r.ambient
           /\ next_id' = r.next_id
    /\ t1' = now
    /\ last' = [op |-> "format", result |-> "first"]
    /\ UNCHANGED <<fmt, record, out2, t2>>
    /\ UNCHANGED <<regVars, clockVars, reqVars>>

\* a second handler with the same formatter formats the same record
format_second ==
    /\ ~IsNone(out1)
    /\ IsNone(out2)
    /\ LET r == Format(fmt, record, now)
       IN  /\ out2' = r.out
           /\ ambient' = r.ambient
           /\ next_id' = r.next_id
    /\ t2' = now
    /\ last' = [op |-> "format", result |-> "second"]
    /\ UNCHANGED <<fmt, record, out1, t1>>
    /\ UNCHANGED <<regVars, clockVars, reqVars>>

FmtTick ==
    \E step \in ClockSteps :
        /\ Tick(step)
        /\ UNCHANGED <<regVars, last, reqVars, fmtVars>>

\* A framework is active (init('flask') or init('django') was called), or
\* none is; one LogRecord is being handled inside or outside a request.
FmtInit ==
    /\ ENABLE_JSON_LOGGING = TRUE
    /\ django_present = TRUE
    /\ framework_support_map = ImportedFrameworks
    /\ \/ /\ current_framework \in {FlaskBinding, DjangoBinding}
          /\ request_util =
                 RequestUtil(current_framework.request_adapter_class,
                             current_framework.response_adapter_class)
          /\ fmt = "JSONLogWebFormatter"
          /\ selected = TRUE
       \/ /\ current_framework = NoneV
          /\ request_util = NoneV
          /\ fmt = "JSONLogFormatter"
          /\ selected = FALSE
    /\ warnings = 0
    /\ default_formatter = fmt
    /\ root_handlers = <<>>
    /\ request_logger = [set |-> FALSE, handlers |-> <<>>]
    /\ middleware_depth = 0
    /\ calls = 1
    /\ init_calls = 1
    /\ after_first_init = [cf |-> current_framework, ru |-> request_util]
    /\ latest_reg = ImportedFrameworks
    /\ last = [op |-> "init", result |-> "ok", name |-> NoneV]
    /\ ClockIdle
    /\ ReqIdle
    /\ record \in Records
    /\ ambient \in AmbientChoices
    /\ next_id = 0
    /\ out1 = NoneV
    /\ out2 = NoneV
    /\ t1 = 0
    /\ t2 = 0

FmtNext == FmtTick \/ format_first \/ format_second

SpecFmt == FmtInit /\ [][FmtNext]_vars

(***************************************************************************)
(* Claims about the registry and the initialisation entry points (Spec).   *)
(***************************************************************************)

\* C1: every call of init after the first one fails with RuntimeError and
\* leaves _current_framework and _request_util as the first call set them.
C1_SecondInitFails ==
    (last.op = "init" /\ init_calls >= 2) =>
        /\ last.result = "RuntimeError"
        /\ current_framework = after_first_init.cf
        /\ request_util = after_first_init.ru

\* C2: init_request_instrument raises RuntimeError whenever no successful
\* init(framework_name) has happened (init not called, called without a
\* framework name, or failed on an unregistered name), and the request
\* logger's handlers carry JSONRequestLogFormatter only after a successful
\* init(framework_name).
C2_InstrumentNeedsFramework ==
    /\ (last.op = "init_request_instrument" /\ ~selected) =>
           last.result = "RuntimeError"
    /\ (last.op = "init_request_instrument" /\ last.result = "ok") => selected
    /\ \A i \in DOMAIN request_logger.handlers :
           request_logger.handlers[i].formatter = "JSONRequestLogFormatter"
               => selected

\* init_request_instrument was refused after an init that selected nothing
C2_Witness ==
    /\ last.op = "init_request_instrument"
    /\ last.result = "RuntimeError"
    /\ init_calls >= 1
    /\ ~selected

\* C3: a registration with conforming classes under a non-empty name never
\* fails, also when the (lower-cased) name is already registered; it then
\* warns; the map holds the binding of the latest registration; and a
\* successful init(name) selects the latest registration of lower(name).
C3_ReRegistrationOverrides ==
    /\ (/\ last.op = "register"
        /\ Truthy(last.name)
        /\ last.binding \in {OverrideBinding, SecondBinding})
           => last.result = "ok"
    /\ (last.op = "register" /\ last.result = "ok") =>
           /\ last.was_registered => last.warned
           /\ framework_support_map[Lower(last.name.str)] = last.binding
    /\ (last.op = "init" /\ last.result = "ok" /\ Truthy(last.name)) =>
           LET b == latest_reg[Lower(last.name.str)]
           IN  /\ current_framework = b
               /\ request_util = RequestUtil(b.request_adapter_class,
                                             b.response_adapter_class)

\* django registered again twice after the import, last with SecondBinding,
\* and init("DJango") selected SecondBinding
C3_Witness ==
    /\ last.op = "init"
    /\ last.result = "ok"
    /\ last.name = Str(<<"D", "J", "a", "n", "g", "o">>)
    /\ warnings >= 2
    /\ framework_support_map[django] = SecondBinding
    /\ current_framework = SecondBinding

\* C10: with JSON logging enabled and a handler on the root logger,
\* config_root_logger completes without error; with a framework active the
\* root handlers get JSONLogWebFormatter and the request logger loses its
\* handlers; with no framework active the root handlers get JSONLogFormatter.
C10_ConfigRootLoggerCompletes ==
    (/\ last.op = "config_root_logger"
     /\ ENABLE_JSON_LOGGING
     /\ Len(root_handlers) > 0) =>
        /\ last.result = "ok"
        /\ IF IsNone(current_framework)
           THEN \A i \in DOMAIN root_handlers :
                    root_handlers[i].formatter = "JSONLogFormatter"
           ELSE /\ \A i \in DOMAIN root_handlers :
                       root_handlers[i].formatter = "JSONLogWebFormatter"
                /\ request_logger.handlers = <<>>


(***************************************************************************)
(* Claims about RequestInfo, the response adapter and the middleware       *)
(* (SpecReq).                                                              *)
(***************************************************************************)

\* C4: a second update_response_status on the same RequestInfo is signalled
\* as an error and leaves the fields the first call captured.
C4_SecondFinalizeRejected ==
    (last.op = "update_response_status" /\ finalize_calls >= 2) =>
        /\ last.result # "ok"
        /\ request_info = first_finalize

\* C5: when the inner handler returned a response, the middleware has
\* finalized the RequestInfo, emitted exactly one access-log record and
\* returned the handler's response; when the inner handler aborted, no
\* access-log record was emitted.
C5_MiddlewareLogsOnce ==
    pc = "done" =>
        IF IsNone(response)
        THEN access_log = <<>>
        ELSE /\ finalize_calls >= 1
             /\ Len(access_log) = 1
             /\ mw_result = [returns |-> response]

\* C6: response_time_ms is the elapsed time between the creation of the
\* RequestInfo and the update_response_status call, in whole milliseconds
\* (microseconds divided by 1000, truncated).
C6_ResponseTimeWholeMs ==
    (pc # "idle" /\ "response_time_ms" \in request_info.attrs) =>
        request_info.response_time_ms =
            (finalized_at.int - request_info.request_start) \div 1000

\* finalized 1.05 s after arrival: 1050 ms
C6_Witness ==
    /\ pc # "idle"
    /\ "response_time_ms" \in request_info.attrs
    /\ finalized_at.int - request_info.request_start = 1050000
    /\ request_info.response_time_ms = 1050

\* C9: the response adapter never raises for a missing optional fact: the
\* size is the Content-Length header, else the stream position, else the
\* sentinel; the content type of a response without Content-Type is the
\* sentinel.
C9_AdapterNeverRaises ==
    last.op = "update_response_status" =>
        /\ last.result = "ok"
        /\ request_info.response_size_b =
               IF last.response.content_length # "None"
               THEN Str(last.response.content_length)
               ELSE IF "int" \in DOMAIN last.response.tell
               THEN last.response.tell
               ELSE Str(EMPTY_VALUE)
        /\ last.response.content_type = "None" =>
               request_info.response_content_type = Str(EMPTY_VALUE)


(***************************************************************************)
(* Claims about the formatters (SpecFmt).                                  *)
(***************************************************************************)
IsDoc(out) == "doc" \in DOMAIN out

\* the keys of the formatter's dict literal
FixedKeys ==
    {"type", "written_at", "written_ts", "component_id", "component_name",
     "component_instance", "logger", "thread", "level", "line_no", "module",
     "msg"}
    \cup (IF fmt = "JSONLogWebFormatter" THEN {"correlation_id"} ELSE {})

\* the value the formatter itself gives key k in a format call at time t
FixedValue(k, t) ==
    CASE k = "type" -> Str("log")
      [] k = "written_at" ->
             [iso_s |-> t \div 1000000, iso_ms |-> (t % 1000000) \div 1000]
      [] k = "written_ts" ->
             [ns_s |-> t \div 1000000, ns_rem |-> (t % 1000000) * 1000]
      [] k = "component_id" -> Str("-")
      [] k = "component_name" -> Str("-")
      [] k = "component_instance" -> IntV(0)
      [] k = "logger" -> Str(record.name)
      [] k = "thread" -> Str(record.threadName)
      [] k = "level" -> Str(record.levelname)
      [] k = "line_no" -> IntV(record.lineno)
      [] k = "module" -> Str(record.module)
      [] k = "msg" -> Str(record.msg)
      [] k = "correlation_id" ->
             IF IsNone(ambient) THEN Str("-")
             ELSE IF ambient.headers["X-Correlation-ID"] # Str("")
             THEN ambient.headers["X-Correlation-ID"]
             ELSE ambient.headers["X-Request-ID"]

HasExc == TruthyValue(record.exc_info) \/ TruthyValue(record.exc_text)

\* C7 as stated: every key of props maps to its props value in the emitted
\* object, also the keys exc_info and filename, and every fixed field whose
\* key is not in props keeps the formatter's value.
C7_PropsShadowEveryField ==
    IsDoc(out1) =>
        /\ \A k \in DictKeys(record.props) :
               JsonGet(out1.doc, k) = DictValue(record.props, k)
        /\ \A k \in FixedKeys \ DictKeys(record.props) :
               JsonGet(out1.doc, k) = FixedValue(k, t1)

\* C7 amended: every key of props maps to its props value in the emitted
\* object, except exc_info and filename when the record carries exception
\* info or exception text: these two are written after the props and hold
\* the formatter's exception fields.  Every fixed field whose key is not in
\* props keeps the formatter's value.
C7_PropsShadowFixedFields ==
    IsDoc(out1) =>
        /\ \A k \in DictKeys(record.props) :
               JsonGet(out1.doc, k) =
                   IF HasExc /\ k \in {"exc_info", "filename"}
                   THEN DictValue(get_exc_fields(record), k)
                   ELSE DictValue(record.props, k)
        /\ \A k \in FixedKeys \ DictKeys(record.props) :
               JsonGet(out1.doc, k) = FixedValue(k, t1)

\* props shadow the fixed field msg, and the exception fields of a record
\* with exception info are those of the formatter
C7_Witness ==
    /\ IsDoc(out1)
    /\ record.has_props
    /\ "msg" \in DictKeys(record.props)
    /\ JsonGet(out1.doc, "msg") = Str("p1")
    /\ HasExc
    /\ JsonGet(out1.doc, "exc_info") = [traceback |-> "ValueError"]

=============================================================================
